---------------------------- MODULE Spec2Model ----------------------------
(***************************************************************************)
(* A model of src/src/log_simulator.py: the generation loop of             *)
(* generate_logs (argument validation, handler attachment to the           *)
(* process-wide logger, the tick loop paced by time.time / time.sleep),    *)
(* main (parse_arguments, configure_logger, generate_logs), and the pure   *)
(* pipeline generate_random_log_data -> generate_log_message.              *)
(*                                                                         *)
(* Two state machines share the module:                                    *)
(*   Spec / FairSpec  the process: calls of generate_logs and main, one    *)
(*                    step per statement group of the tick loop;           *)
(*   RenderSpec       the pure pipeline: every record the sampler can      *)
(*                    build, rendered in every format and level.           *)
(***************************************************************************)
EXTENDS Integers, Sequences, FiniteSets, Bags, TLC

VARIABLES
    pc,              \* "idle" | "main" | "generate_logs" | "check" | "tick" | "sleep"
    args,            \* the arguments of the current call
    result,          \* how the last call ended; "none" while one runs
    i,               \* the loop index of `for i in range(events)`
    now,             \* time.time(), in seconds since the last idle point
    start_time,      \* line 296
    checked,         \* the value time.time() returned at line 299
    log_start_time,  \* line 302
    handlers,        \* the bag of the levels of the handlers of
                     \* logging.getLogger(__name__)
    root_handlers,   \* number of handlers of the root logger
    emitted,         \* logger.log calls made by the current (or last) call
    written,         \* lines the last logger.log call wrote
    calls,           \* calls of generate_logs / main started so far
    stage,           \* RenderSpec: "start" | "sampled" | "rendered" | an error
    log_data,        \* RenderSpec: the record generate_random_log_data built
    render_args,     \* RenderSpec: the format and level given to the renderer
    log_message      \* RenderSpec: what generate_log_message returned

sched_vars == <<pc, args, result, i, now, start_time, checked, log_start_time,
                handlers, root_handlers, emitted, written, calls>>
render_vars == <<stage, log_data, render_args, log_message>>
vars == <<sched_vars, render_vars>>

---------------------------------------------------------------------------
\* Bounds of the model.

\* Longest time (seconds) that passes before a time.time() read.
MaxDelay == 1
\* Longest time (seconds) one tick's sampling, rendering and writing takes.
MaxWork == 2
\* Number of calls of generate_logs / main made in one process.
MaxCalls == 2
\* An events argument large enough not to bind in a run of a few ticks.
ManyEvents == 11

Max(a, b) == IF a >= b THEN a ELSE b

---------------------------------------------------------------------------
\* Module-level tables.

valid_facilities ==
    {"auth", "authpriv", "cron", "daemon", "ftp", "kern", "lpr", "mail",
     "news", "syslog", "user", "uucp", "local0", "local1", "local2",
     "local3", "local4", "local5", "local6", "local7"}

valid_levels == {"DEBUG", "INFO", "WARNING", "ERROR", "CRITICAL"}

check_facility(facility) == facility \in valid_facilities

\* Python's None, and str(None).
None == "<NoneType>"
NoneStr == "None"

\* getattr(logging, level.upper(), None) for the names the model passes:
\* the numeric levels of Python's logging module; -1 stands for None.
NoLevel == -1
getattr_logging(level) ==
    CASE level = "CRITICAL" -> 50
      [] level = "ERROR"    -> 40
      [] level = "WARNING"  -> 30
      [] level = "INFO"     -> 20
      [] level = "DEBUG"    -> 10
      [] OTHER              -> NoLevel

\* RFC5424Formatter.map_priority
map_priority(levelname) ==
    CASE levelname = "CRITICAL" -> 2
      [] levelname = "ERROR"    -> 3
      [] levelname = "WARNING"  -> 4
      [] levelname = "INFO"     -> 6
      [] levelname = "DEBUG"    -> 7
      [] OTHER                  -> 6

---------------------------------------------------------------------------
\* generate_random_log_data

device_event_class_id_map ==
    [p \in {<<"success", "login">>, <<"success", "logout">>,
            <<"success", "password_change">>, <<"success", "account_creation">>,
            <<"failure", "login">>, <<"failure", "logout">>,
            <<"failure", "password_change">>, <<"failure", "account_creation">>,
            <<"failure", "invalid_credentials">>, <<"failure", "expired_password">>}
       |-> CASE p = <<"success", "login">>               -> 1
             [] p = <<"success", "logout">>              -> 2
             [] p = <<"success", "password_change">>     -> 3
             [] p = <<"success", "account_creation">>    -> 4
             [] p = <<"failure", "login">>               -> 5
             [] p = <<"failure", "logout">>              -> 6
             [] p = <<"failure", "password_change">>     -> 7
             [] p = <<"failure", "account_creation">>    -> 8
             [] p = <<"failure", "invalid_credentials">> -> 9
             [] OTHER                                     -> 10]

response_map(response) == IF response = "success" THEN "allow" ELSE "deny"

reasons == {"unknown", "expired_password", "invalid_credentials"}
responses == {"success", "failure"}
\* The event kinds of the specification's ScenarioDomain; as the sampled
\* domain, a variant of auth_events that draws pairs without a class id.
auth_events_with_failure_kinds ==
    {"login", "logout", "password_change", "account_creation",
     "invalid_credentials", "expired_password", "account_locked"}
auth_events == {"login", "logout", "password_change", "account_creation"}
users == {"alice", "bob", "charlie"}
susers == {"user", "admin", "service_account"}

\* Variant: the reason drawn whatever the response.
reason_always_sampled(response) == reasons
\* random.choice(reasons) if response == 'failure' else None
reason_choices(response) ==
    IF response = "failure" THEN reasons ELSE {None}

\* The ends of the ranges random.randint draws from.
severities == {1, 10}
host_octets == {1, 255}
source_ports == {1024, 65535}

\* The order in which the 'extension' dict holds its keys.
extension_keys ==
    <<"src", "dst", "spt", "dpt", "response", "user", "outcome", "reason",
      "cs1", "deviceProcessName", "authDecision", "act", "suser">>

\* Whether device_event_class_id_map[(response, auth_event)] succeeds.
class_id_mapped(response, auth_event) ==
    <<response, auth_event>> \in DOMAIN device_event_class_id_map

\* The log_data dict for one set of draws (lines 213-235).
build_log_data(response, auth_event, reason, user, severity, src, dst, spt, suser) ==
    [device_vendor         |-> "Contoso",
     device_product        |-> "auth_server",
     device_version        |-> "1.0",
     device_event_class_id |-> device_event_class_id_map[<<response, auth_event>>],
     name                  |-> "Log Simulator - Auth Event",
     severity              |-> severity,
     extension |->
        [src               |-> "192.168.0." \o ToString(src),
         dst               |-> "192.168.0." \o ToString(dst),
         spt               |-> spt,
         dpt               |-> 22,
         response          |-> response,
         user              |-> user,
         outcome           |-> response,
         reason            |-> reason,
         cs1               |-> "password",
         deviceProcessName |-> "ssh",
         authDecision      |-> response_map(response),
         act               |-> auth_event,
         suser             |-> suser]]

---------------------------------------------------------------------------
\* generate_log_message

\* str(v) as the f-string applies it to the value under key k.
str_of(k, v) ==
    IF k \in {"spt", "dpt"} THEN ToString(v)
    ELSE IF v = None THEN NoneStr ELSE v

\* f'{k}={v}' for k, v in log_data['extension'].items()
extension_tokens(data) ==
    [n \in 1..Len(extension_keys) |->
        extension_keys[n] \o "=" \o
            str_of(extension_keys[n], data.extension[extension_keys[n]])]

\* Variant: the header carrying the record's sampled severity.
cef_header_sampled_severity(data, level_number) ==
    <<"CEF:0", data.device_vendor, data.device_product, data.device_version,
      ToString(data.device_event_class_id), data.name, ToString(data.severity)>>
\* The pipe-separated header fields of the cef line (line 249).
cef_header(data, level_number) ==
    <<"CEF:0", data.device_vendor, data.device_product, data.device_version,
      ToString(data.device_event_class_id), data.name, ToString(level_number)>>

\* The space-separated leading fields of the syslog line (line 246).
syslog_head(data, level) ==
    <<data.device_vendor, level, data.extension.act,
      ToString(data.device_event_class_id), data.extension.user,
      data.extension.outcome, str_of("reason", data.extension.reason)>>

\* A message is its leading fields, their separator, and the space-joined
\* extension tokens; raised names the exception when there is one.
generate_log_message(format, data, level, facility) ==
    LET level_number == getattr_logging(level) IN
    IF level_number = NoLevel
    THEN [raised |-> "ValueError", sep |-> "", head |-> <<>>, extension |-> <<>>]
    ELSE IF format = "syslog"
    THEN [raised |-> "", sep |-> " ", head |-> syslog_head(data, level),
          extension |-> extension_tokens(data)]
    ELSE IF format = "cef"
    THEN [raised |-> "", sep |-> "|", head |-> cef_header(data, level_number),
          extension |-> extension_tokens(data)]
    ELSE [raised |-> "ValueError", sep |-> "", head |-> <<>>, extension |-> <<>>]

---------------------------------------------------------------------------
\* The arguments the model passes to generate_logs and main.

\* Through generate_logs and main 'cef' takes the path of 'syslog' (it only
\* selects the formatter), so the calls pass one of the two; RenderSpec
\* renders both.
Formats == {"syslog", "cef", "xml"}
CallFormats == {"syslog", "xml"}
Facilities == {"console", "auth", "tty"}
EventsDomain == {0, 2, ManyEvents}
RateDomain == {0, 1, 10}
Levels == {"DEBUG", "INFO", "TRACE"}
RuntimeDomain == {-1, 0, 1}

ArgsDomain ==
    [format : CallFormats, facility : Facilities, events : EventsDomain,
     rate : RateDomain, level : Levels, runtime : RuntimeDomain]

\* The defaults of parse_arguments: the arguments before any call.
DefaultEvents == 20
DefaultRate == 60
DefaultRuntime == 0
DefaultArgs ==
    [format |-> "syslog", facility |-> "syslog", events |-> DefaultEvents,
     rate |-> DefaultRate, level |-> "INFO", runtime |-> DefaultRuntime]

\* The time that passes before line 299 reads the clock: none or the longest.
Delays == {0, MaxDelay}
\* Line 302 reads the clock right after line 299 did.
StampDelays == {0}
\* The time a tick's work takes: none or the longest.
Works == {0, MaxWork}

---------------------------------------------------------------------------
\* The conditions of generate_logs.

\* Variant: the validation without the runtime check of lines 269-270.
arguments_valid_runtime_unchecked(a) ==
    /\ a.events > 0
    /\ a.rate > 0
    /\ a.level \in {"DEBUG", "INFO", "WARNING", "ERROR", "CRITICAL"}
    /\ a.facility \in {"console"} \cup valid_facilities
    /\ getattr_logging(a.level) # NoLevel
\* Lines 263-277: no check raises.  (The model's arguments are integers and
\* strings, so the isinstance tests pass.)
arguments_valid(a) ==
    /\ a.events > 0
    /\ a.rate > 0
    /\ a.level \in {"DEBUG", "INFO", "WARNING", "ERROR", "CRITICAL"}
    /\ a.runtime >= 0
    /\ a.facility \in {"console"} \cup valid_facilities
    /\ getattr_logging(a.level) # NoLevel

\* Variant: the loop running once more.
range_exhausted_off_by_one(n, events) == n > events
\* `for i in range(events)` has no next item.
range_exhausted(n, events) == n >= events

\* Variant: the check with > for >=.
runtime_exceeded_strictly(runtime, t, start) == runtime > 0 /\ t - start > runtime
\* runtime > 0 and time.time() - start_time >= runtime
runtime_exceeded(runtime, t, start) == runtime > 0 /\ t - start >= runtime

\* Variant: rate read as events per second (a period of 1 / rate).
sleep_duration_as_frequency(rate, t, log_start) ==
    Max(0, (1 \div rate) - (t - log_start))
\* max(0, rate - (time.time() - log_start_time))
sleep_duration(rate, t, log_start) == Max(0, rate - (t - log_start))

\* logger.log(log_level, ...) at the level logger.setLevel(log_level) has
\* just set is enabled; Logger.callHandlers then has each handler of the
\* logger write the record when the record's level is at least the
\* handler's, and the record propagates to the root logger, whose handler
\* (installed by logging.basicConfig, level NOTSET) writes it too.
lines_written(hs, roots, levelno) ==
    LET accepting == {l \in BagToSet(hs) : levelno >= l} IN
    BagCardinality([l \in accepting |-> hs[l]]) + roots

\* logger.addHandler(handler): one more handler of that level.
addHandler(hs, level_number) == hs (+) SetToBag({level_number})

---------------------------------------------------------------------------
\* The process.

Init ==
    /\ pc = "idle"
    /\ args = DefaultArgs
    /\ result = "none"
    /\ i = 0
    /\ now = 0
    /\ start_time = 0
    /\ checked = 0
    /\ log_start_time = 0
    /\ handlers = EmptyBag
    /\ root_handlers = 0
    /\ emitted = 0
    /\ written = 0
    /\ calls = 0
    /\ stage = "start"
    /\ log_data = <<>>
    /\ render_args = <<>>
    /\ log_message = <<>>

\* The call ends: its arguments and locals die, and the clock is read from
\* here on relative to this point (the code uses only differences of
\* time.time()).
Finish(how) ==
    /\ pc' = "idle"
    /\ result' = how
    /\ args' = DefaultArgs
    /\ i' = 0
    /\ now' = 0
    /\ start_time' = 0
    /\ checked' = 0
    /\ log_start_time' = 0

\* A call begins: its parameters are bound.
Call(entry) ==
    /\ pc = "idle"
    /\ calls < MaxCalls
    /\ calls' = calls + 1
    /\ \E a \in ArgsDomain : args' = a
    /\ pc' = entry
    /\ result' = "none"
    /\ emitted' = 0
    /\ written' = 0
    /\ UNCHANGED <<i, now, start_time, checked, log_start_time, handlers,
                   root_handlers, render_vars>>

\* A caller calls generate_logs directly.
CallGenerateLogs == Call("generate_logs")

\* The script is run: main().  A config file can give any format, facility
\* and level.
CallMain == Call("main")

\* parse_arguments, lines 120-143: whether it calls sys.exit.  (No facility
\* named 'security' is in valid_facilities, so line 122 is never reached.)
parse_arguments_exits(a) ==
    \/ ~check_facility(a.facility)
    \/ a.events <= 0
    \/ a.rate <= 0
    \/ (a.level = "DEBUG" /\ a.runtime = 0)

\* configure_logger, lines 149-155 and 163-168: the exception it raises, if
\* any; devlog says whether SysLogHandler can connect to /dev/log.
configure_logger_raises(level, output, format, devlog) ==
    IF getattr_logging(level) = NoLevel THEN "ValueError(level)"
    ELSE IF format \notin {"cef", "syslog"} THEN "ValueError(format)"
    ELSE IF output # "console" /\ ~check_facility(output) THEN "ValueError(facility)"
    ELSE IF output # "console" /\ ~devlog THEN "OSError"
    ELSE ""

\* main, lines 323-324: parse_arguments, then configure_logger.
Main ==
    /\ pc = "main"
    /\ \E devlog \in BOOLEAN :
        IF parse_arguments_exits(args)
        THEN /\ Finish("SystemExit")
             /\ UNCHANGED handlers
        ELSE LET raised == configure_logger_raises(args.level, args.facility,
                                                   args.format, devlog) IN
             IF raised # ""
             THEN /\ Finish(raised)
                  /\ UNCHANGED handlers
             ELSE /\ pc' = "generate_logs"
                  /\ handlers' = addHandler(handlers, getattr_logging(args.level))
                  /\ UNCHANGED <<args, result, i, now, start_time, checked,
                                 log_start_time>>
    /\ UNCHANGED <<root_handlers, emitted, written, calls, render_vars>>

\* generate_logs, lines 261-296 (main's line 325 calls it with the parsed
\* arguments): validation, then the handler.
GenerateLogs ==
    /\ pc = "generate_logs"
    /\ \E devlog \in BOOLEAN :
        IF ~arguments_valid(args)
        THEN /\ Finish("ValueError(argument)")
             /\ UNCHANGED handlers
        ELSE /\ IF args.facility # "console" /\ ~devlog
                THEN /\ Finish("ValueError(handler)")
                     /\ UNCHANGED handlers
                ELSE /\ handlers' = addHandler(handlers, getattr_logging(args.level))
                     /\ pc' = "check"
                     /\ start_time' = now
                     /\ UNCHANGED <<args, result, i, now, checked, log_start_time>>
    /\ UNCHANGED <<root_handlers, emitted, written, calls, render_vars>>

\* Lines 297-300: the next item of range(events), then the runtime check.
Check ==
    /\ pc = "check"
    /\ IF range_exhausted(i, args.events)
       THEN Finish("returned")
       ELSE \E d \in Delays :
            IF runtime_exceeded(args.runtime, now + d, start_time)
            THEN Finish("returned")
            ELSE /\ pc' = "tick"
                 /\ now' = now + d
                 /\ checked' = now + d
                 /\ UNCHANGED <<args, i, result, start_time, log_start_time>>
    /\ UNCHANGED <<handlers, root_handlers, emitted, written, calls,
                   render_vars>>

\* Lines 302-317: log_start_time, generate_random_log_data,
\* generate_log_message, logger.log.  Line 302 reads the clock right after
\* line 299 did, d seconds later.  The draws the loop never reads (user,
\* severity, addresses, ports) are fixed here; RenderSpec draws them all.
Tick ==
    /\ pc = "tick"
    /\ \E d \in StampDelays, response \in responses, auth_event \in auth_events :
       LET reason == CHOOSE r \in reason_choices(response) : TRUE IN
        IF ~class_id_mapped(response, auth_event)
        THEN \* KeyError is no ValueError: it leaves generate_logs
             /\ Finish("KeyError")
             /\ UNCHANGED <<root_handlers, emitted, written>>
        ELSE LET data == build_log_data(response, auth_event, reason, "alice",
                                        1, 1, 1, 1024, "user")
                 message == generate_log_message(args.format, data, args.level,
                                                 args.facility)
             IN IF message.raised # ""
                THEN \* logging.error(str(e)); print(str(e)); return
                     /\ Finish("caught")
                     /\ root_handlers' = Max(root_handlers, 1)
                     /\ UNCHANGED <<emitted, written>>
                ELSE /\ pc' = "sleep"
                     /\ now' = now + d
                     /\ log_start_time' = now + d
                     /\ emitted' = emitted + 1
                     /\ written' = lines_written(handlers, root_handlers,
                                                 getattr_logging(args.level))
                     /\ UNCHANGED <<args, i, result, start_time, checked,
                                    root_handlers>>
    /\ UNCHANGED <<handlers, calls, render_vars>>

\* Line 319: the sleep that holds the rate; w is the time the tick's work took.
Sleep ==
    /\ pc = "sleep"
    /\ \E w \in Works :
        now' = now + w + sleep_duration(args.rate, now + w, log_start_time)
    /\ i' = i + 1
    /\ pc' = "check"
    /\ UNCHANGED <<args, result, start_time, checked, log_start_time, handlers,
                   root_handlers, emitted, written, calls, render_vars>>

Next ==
    \/ CallGenerateLogs
    \/ CallMain
    \/ Main
    \/ GenerateLogs
    \/ Check
    \/ Tick
    \/ Sleep

Spec == Init /\ [][Next]_vars

\* The interpreter keeps executing a call it has begun, and time.sleep returns.
FairSpec ==
    /\ Spec
    /\ WF_vars(Main)
    /\ WF_vars(GenerateLogs)
    /\ WF_vars(Check)
    /\ WF_vars(Tick)
    /\ WF_vars(Sleep)

---------------------------------------------------------------------------
\* The pure pipeline: generate_random_log_data, then generate_log_message.

\* Lines 207-236: one record per set of draws, or KeyError when the pair
\* drawn has no class id.
Sample ==
    /\ stage = "start"
    /\ \E response \in responses, auth_event \in auth_events, user \in users,
          severity \in severities, src \in host_octets, dst \in host_octets,
          spt \in source_ports, suser \in susers :
       \E reason \in reason_choices(response) :
        IF class_id_mapped(response, auth_event)
        THEN /\ stage' = "sampled"
             /\ log_data' = build_log_data(response, auth_event, reason, user,
                                           severity, src, dst, spt, suser)
        ELSE /\ stage' = "KeyError"
             /\ log_data' = [response |-> response, auth_event |-> auth_event]
    /\ UNCHANGED <<render_args, log_message, sched_vars>>

\* Lines 239-251, for each format and level.
Render ==
    /\ stage = "sampled"
    /\ \E format \in Formats, level \in valid_levels \cup {"TRACE"} :
        LET message == generate_log_message(format, log_data, level, "console") IN
        /\ render_args' = [format |-> format, level |-> level]
        /\ log_message' = message
        /\ stage' = IF message.raised # "" THEN message.raised ELSE "rendered"
    /\ UNCHANGED <<log_data, sched_vars>>

RenderNext ==
    \/ Sample
    \/ Render

RenderSpec == Init /\ [][RenderNext]_vars

---------------------------------------------------------------------------
\* Properties of the generation loop (Spec, FairSpec).

Running == pc \in {"check", "tick", "sleep"}
KnownFormat == args.format \in {"syslog", "cef"}

\* C1: with runtime = 0 and otherwise valid arguments the run never ends on
\* its own: no step of the tick loop leaves generate_logs.
C1_NeverSelfTerminates ==
    [][(Running /\ args.runtime = 0 /\ KnownFormat) => pc' # "idle"]_vars

\* C2: with runtime > 0 the run ends on its own, and a tick that emits began
\* with an elapsed time (read once, at line 299) below runtime.
C2_RuntimeBoundsTheRun ==
    /\ [](pc \in {"tick", "sleep"} /\ args.runtime > 0
            => checked - start_time < args.runtime)
    /\ [](pc = "sleep" => checked <= log_start_time)
    /\ ((Running /\ args.runtime > 0) ~> pc = "idle")

\* C2 witness: ticks were emitted, events are left, and the elapsed time has
\* reached runtime: the check that comes now ends the run.
C2_Witness ==
    /\ pc = "check"
    /\ args.runtime > 0
    /\ emitted >= 1
    /\ i < args.events
    /\ now - start_time >= args.runtime

\* The case of C3: rate 10, runtime 1, and an events limit that does not bind.
C3_Case == Running /\ args.rate = 10 /\ args.runtime = 1 /\ args.events >= 11

\* C3 as stated: a run of that case that emitted anything ends having emitted
\* between 9 and 11 events.
C3_TenEventsPerUnitTime ==
    [][(C3_Case /\ emitted >= 1 /\ pc' = "idle") => emitted \in 9..11]_vars

\* C3 amended: in that case at most one event is emitted, the sleep after it
\* lasts until 10 seconds have passed since the tick began (rate is seconds
\* per event), and the run then ends on its own.
C3_OneEventThenStop ==
    /\ [](C3_Case => emitted <= 1)
    /\ [](C3_Case /\ pc = "check" /\ i >= 1
            => emitted = 1 /\ i = 1 /\ now - start_time >= args.rate)
    /\ (C3_Case ~> pc = "idle")

\* C3 witness: the one event was emitted and the sleep is over.
C3_Witness == C3_Case /\ pc = "check" /\ i = 1 /\ emitted = 1

\* C4: a tick that completed wrote exactly one line.
C4_OneLinePerTick == pc = "sleep" => written = 1

C6_UnknownFormatFailsFast ==
    [][(pc = "tick" /\ ~KnownFormat /\ pc' = "idle")
        => (result' = "ValueError(format)" /\ emitted' = 0)]_vars

\* The arguments C10 calls invalid.
C10_Invalid(a) ==
    \/ a.events <= 0
    \/ a.rate <= 0
    \/ a.level \notin valid_levels
    \/ a.runtime < 0
    \/ a.facility \notin ({"console"} \cup valid_facilities)

\* C10: generate_logs called with an invalid argument raises, having attached
\* no handler and emitted nothing.
C10_InvalidArgumentsRaiseFirst ==
    [][(pc = "generate_logs" /\ C10_Invalid(args))
        => /\ pc' = "idle"
           /\ result' = "ValueError(argument)"
           /\ handlers' = handlers
           /\ root_handlers' = root_handlers
           /\ emitted' = 0
           /\ written' = 0]_vars

\* C10 witness: a call was refused while the logger already had a handler.
C10_Witness ==
    /\ pc = "idle"
    /\ result = "ValueError(argument)"
    /\ BagCardinality(handlers) >= 1
    /\ emitted = 0

---------------------------------------------------------------------------
\* Properties of the pipeline (RenderSpec).

Sampled == stage \in {"sampled", "rendered", "ValueError"}
RenderedAs(format) == stage = "rendered" /\ render_args.format = format

\* C7 as stated: the sampler draws each of the seven event kinds of the
\* specification, and no pair it draws lacks a class id.
C7_SevenKindsAllMapped ==
    /\ stage # "KeyError"
    /\ \A kind \in auth_events_with_failure_kinds : kind \in auth_events

\* C7 amended: the sampler draws the event kind from login, logout,
\* password_change, account_creation, and every pair it draws has a class id.
C7_SampledPairsMapped ==
    /\ stage # "KeyError"
    /\ Sampled =>
        /\ log_data.extension.act \in
             {"login", "logout", "password_change", "account_creation"}
        /\ <<log_data.extension.outcome, log_data.extension.act>>
             \in DOMAIN device_event_class_id_map
        /\ log_data.device_event_class_id \in 1..8

\* C7 witness: a failed account creation was sampled, class id 8.
C7_Witness ==
    /\ stage = "sampled"
    /\ log_data.extension.outcome = "failure"
    /\ log_data.extension.act = "account_creation"
    /\ log_data.device_event_class_id = 8

\* The fields of the cef header before the severity, in order.
C8_HeaderFields ==
    /\ log_message.sep = "|"
    /\ Len(log_message.head) = 7
    /\ SubSeq(log_message.head, 1, 6) =
         <<"CEF:0", "Contoso", "auth_server", "1.0",
           ToString(log_data.device_event_class_id), "Log Simulator - Auth Event">>
    /\ Len(log_message.extension) = 13
    /\ log_message.extension[1] = "src=" \o log_data.extension.src
    /\ log_message.extension[13] = "suser=" \o log_data.extension.suser

\* C8 as stated: the severity field is the syslog number of the level.
C8_SyslogSeverity ==
    RenderedAs("cef") =>
        /\ C8_HeaderFields
        /\ log_message.head[7] =
             CASE render_args.level = "CRITICAL" -> "2"
               [] render_args.level = "ERROR"    -> "3"
               [] render_args.level = "WARNING"  -> "4"
               [] render_args.level = "INFO"     -> "6"
               [] render_args.level = "DEBUG"    -> "7"

\* C8 amended: the severity field is the number Python's logging module
\* gives the level, whatever severity the record sampled.
C8_LoggingLevelSeverity ==
    RenderedAs("cef") =>
        /\ C8_HeaderFields
        /\ log_message.head[7] =
             CASE render_args.level = "CRITICAL" -> "50"
               [] render_args.level = "ERROR"    -> "40"
               [] render_args.level = "WARNING"  -> "30"
               [] render_args.level = "INFO"     -> "20"
               [] render_args.level = "DEBUG"    -> "10"

\* C8 witness: a record of severity 1 rendered in cef at level ERROR.
C8_Witness ==
    /\ RenderedAs("cef")
    /\ render_args.level = "ERROR"
    /\ log_data.severity = 1
    /\ log_message.head[7] = "40"

\* C9: reason is one of the three reasons when outcome is failure and None
\* otherwise; the syslog line shows None as 'None' in both places.
C9_ReasonIffFailure ==
    /\ Sampled =>
        /\ log_data.extension.outcome = "failure"
             => log_data.extension.reason
                  \in {"unknown", "expired_password", "invalid_credentials"}
        /\ log_data.extension.outcome = "success"
             => log_data.extension.reason = None
    /\ (RenderedAs("syslog") /\ log_data.extension.outcome = "success") =>
        /\ log_message.head[7] = "None"
        /\ log_message.extension[8] = "reason=None"

\* C9 witness: a successful login rendered in syslog format.
C9_Witness ==
    /\ RenderedAs("syslog")
    /\ log_data.extension.outcome = "success"
    /\ log_data.extension.act = "login"
    /\ log_message.head[7] = "None"
    /\ log_message.extension[8] = "reason=None"

=============================================================================
